---- MODULE Spec2Model ----
(***************************************************************************)
(* A model of riptube.py: the format catalogue (ITAG_MAP), the quality     *)
(* selector (highest_quality_content) and the per-item acquisition         *)
(* (download_feed_item) with its two transfer threads, as driven by        *)
(* download_videos_for_user.                                               *)
(*                                                                         *)
(* Conventions.  Python's None is the empty sequence <<>> and a value x    *)
(* that may be None is <<x>>, except for the format names, where None is   *)
(* the string "None".  video_bitrate is kept in units of 0.01 Mbit/s so    *)
(* that the catalogue's fractional bitrates stay integers with the same    *)
(* order (0.25 -> 25, 3.5 -> 350).                                         *)
(***************************************************************************)
EXTENDS Integers, Sequences, FiniteSets, TLC

VARIABLES
    download_options,   \* the tuple download_info returned (input of the selector)
    highest,            \* the selector's three loop variables after its loop
    content,            \* what highest_quality_content returned (or raised)
    pc,                 \* position of the main thread
    video_info,         \* the parsed video-info response, <<>> before the fetch
    sidecar,            \* the file <epoch>_<video_id>.json of the item
    media,              \* the files <epoch>_<video_id>.<file_type>, by file type
    temp,               \* the two files the current call made with mkstemp
    que,                \* Queue of (url, filename) tasks
    unfinished,         \* que's count of unfinished tasks (put minus task_done)
    exception_queue,    \* Queue of the exceptions the threads caught
    wpc,                \* position of each download_in_queue thread
    wtask,              \* the task each thread took from que
    error,              \* the exception leaving download_feed_item, <<>> if none
    calls,              \* calls of download_feed_item made so far
    requests,           \* network requests opened by the current call
    remux_started,      \* the current call has invoked ffmpeg
    reported,           \* every exception the current call's threads reported
    at_call             \* the directory as the current call found it

(***************************************************************************)
(* Bounds                                                                  *)
(***************************************************************************)
\* longest option sequence handed to the selector on its own
MaxLen == 3

\* calls of download_feed_item for the item, over retries and reruns
MaxCalls == 3

(***************************************************************************)
(* Rating tables and the catalogue                                         *)
(***************************************************************************)
VIDEO_RATING_DICT == [ft \in {"3gp", "flv", "mp4", "webm"} |->
    CASE ft = "3gp" -> 1 [] ft = "flv" -> 2 [] ft = "mp4" -> 3 [] ft = "webm" -> 4]

AUDIO_RATING_DICT == [af \in {"mp3", "aac", "vorbis"} |->
    CASE af = "mp3" -> 1 [] af = "aac" -> 2 [] af = "vorbis" -> 3]

MediaType(itag, file_type, resolution, video_format, video_bitrate, audio_format, audio_bitrate) ==
    [itag |-> itag, file_type |-> file_type, resolution |-> resolution,
     video_format |-> video_format, video_bitrate |-> video_bitrate,
     audio_format |-> audio_format, audio_bitrate |-> audio_bitrate]

\* the catalogue entries the model keeps (a subset of the source's table,
\* with the source's values): combined, video-only and audio-only entries
\* in all four containers and all three audio codecs
Itags == {5, 17, 18, 22, 43, 85, 133, 135, 137, 140, 141, 171}

ITAG_MAP == [t \in Itags |->
    CASE t = 5   -> MediaType(5,   "flv",  <<320, 240>>,   "Sorenson h.263", <<25>>,  "mp3",    <<64>>)
      [] t = 17  -> MediaType(17,  "3gp",  <<176, 144>>,   "MPEG-4 Visual",  <<5>>,   "aac",    <<24>>)
      [] t = 18  -> MediaType(18,  "mp4",  <<400, 270>>,   "h.264",          <<50>>,  "aac",    <<96>>)
      [] t = 22  -> MediaType(22,  "mp4",  <<1280, 720>>,  "h.264",          <<200>>, "aac",    <<192>>)
      [] t = 43  -> MediaType(43,  "webm", <<480, 360>>,   "vp8",            <<50>>,  "vorbis", <<128>>)
      [] t = 85  -> MediaType(85,  "mp4",  <<576, 520>>,   "h.264",          <<200>>, "aac",    <<152>>)
      [] t = 133 -> MediaType(133, "mp4",  <<320, 240>>,   "h.264",          <<20>>,  "None",   <<>>)
      [] t = 135 -> MediaType(135, "mp4",  <<640, 480>>,   "h.264",          <<50>>,  "None",   <<>>)
      [] t = 137 -> MediaType(137, "mp4",  <<1920, 1080>>, "h.264",          <<200>>, "None",   <<>>)
      [] t = 140 -> MediaType(140, "mp4",  <<>>,           "None",           <<>>,    "aac",    <<128>>)
      [] t = 141 -> MediaType(141, "mp4",  <<>>,           "None",           <<>>,    "aac",    <<256>>)
      [] t = 171 -> MediaType(171, "webm", <<>>,           "None",           <<>>,    "vorbis", <<128>>)]

DownloadInfo(media_type, url) == [media_type |-> media_type, url |-> url]

(***************************************************************************)
(* MediaType's properties                                                  *)
(***************************************************************************)
has_video(mt) == mt.video_format # "None"

has_audio(mt) == mt.audio_format # "None"

\* the property returns the video bitrate field
audio_bitrate(mt) == mt.video_bitrate

product(resolution) == resolution[1] * resolution[2]

(***************************************************************************)
(* Python's tuple comparison: the first place where the two differ         *)
(* decides; elements that may be None are compared for equality first and  *)
(* ordered only when they differ.                                          *)
(***************************************************************************)
Differ(a, b) == {i \in 1..Len(a) : a[i] # b[i]}

FirstDiffer(a, b) == CHOOSE i \in Differ(a, b) : \A j \in Differ(a, b) : i <= j

TupleLess(a, b) ==
    /\ Differ(a, b) # {}
    /\ a[FirstDiffer(a, b)][1] < b[FirstDiffer(a, b)][1]

TupleGreater(a, b) == TupleLess(b, a)

(***************************************************************************)
(* highest_quality_content                                                 *)
(***************************************************************************)
\* (mutant) a key that leaves the container out
video_quality_key_without_container(option) ==
    << <<0>>,
       <<product(option.media_type.resolution)>>,
       option.media_type.video_bitrate >>

video_quality_key(option) ==
    << <<VIDEO_RATING_DICT[option.media_type.file_type]>>,
       <<product(option.media_type.resolution)>>,
       option.media_type.video_bitrate >>

audio_quality_key(option) ==
    << <<AUDIO_RATING_DICT[option.media_type.audio_format]>>,
       audio_bitrate(option.media_type) >>

NoneFound == [highest_audio |-> <<>>, highest_video |-> <<>>,
              highest_audio_video |-> <<>>]

\* one iteration of the linear search
SearchStep(h, option) ==
    IF has_video(option.media_type)
    THEN IF \/ h.highest_video = <<>>
            \/ TupleGreater(video_quality_key(option),
                            video_quality_key(h.highest_video[1]))
         THEN [h EXCEPT !.highest_video = <<option>>,
                        !.highest_audio_video =
                            IF has_audio(option.media_type) THEN <<option>> ELSE @]
         ELSE h
    ELSE IF \/ h.highest_audio = <<>>
            \/ TupleGreater(audio_quality_key(option),
                            audio_quality_key(h.highest_audio[1]))
         THEN [h EXCEPT !.highest_audio = <<option>>]
         ELSE h

RECURSIVE Search(_, _, _)
Search(options, i, h) ==
    IF i > Len(options) THEN h
    ELSE Search(options, i + 1, SearchStep(h, options[i]))

\* what the call produces: a single option, a pair, None, or the
\* AttributeError of video_quality_key(None)
Single(o)   == [kind |-> "single", first |-> <<o>>, second |-> <<>>]
Pair(v, a)  == [kind |-> "tuple", first |-> <<v>>, second |-> <<a>>]
ReturnNone  == [kind |-> "None", first |-> <<>>, second |-> <<>>]
Raised(e)   == [kind |-> e, first |-> <<>>, second |-> <<>>]

Decide(h) ==
    IF h.highest_audio = <<>>
    THEN IF h.highest_audio_video = <<>> THEN ReturnNone
         ELSE Single(h.highest_audio_video[1])
    ELSE IF h.highest_video = <<>> \/ h.highest_audio_video = <<>>
         THEN Raised("AttributeError")
         ELSE IF TupleLess(video_quality_key(h.highest_video[1]),
                           video_quality_key(h.highest_audio_video[1]))
              THEN Single(h.highest_audio_video[1])
              ELSE Pair(h.highest_video[1], h.highest_audio[1])

highest_quality_content(options) == Decide(Search(options, 1, NoneFound))

(***************************************************************************)
(* URLs.  Every option carries the URL its extractor built for it: the     *)
(* extractor and the place of the entry in that extractor's input.         *)
(***************************************************************************)
Url(from, n) == [from |-> from, n |-> n]

OptionsFrom(from, itags) ==
    [i \in 1..Len(itags) |-> DownloadInfo(ITAG_MAP[itags[i]], Url(from, i))]

(***************************************************************************)
(* Files.  A file is absent, partial (it exists and holds less than its    *)
(* full content, possibly nothing) or complete.                            *)
(***************************************************************************)
FileTypes == {"3gp", "flv", "mp4", "webm"}

TempNames == {"temp_video_filename", "temp_audio_filename"}

NoFiles == [sidecar |-> "absent", media |-> [ft \in FileTypes |-> "absent"]]

Directory == [sidecar |-> sidecar.state, media |-> media]

NoSidecar == [state |-> "absent", file_type |-> "None"]

\* (mutant) the existence test left out
SidecarNeverFound == FALSE

\* os.path.exists(json_filename)
SidecarExists == sidecar.state # "absent"

(***************************************************************************)
(* Errors.  socket.timeout and HTTPError with its status code are what     *)
(* browser_spoof_open raises; the others are raised by the code itself.    *)
(***************************************************************************)
NetErrors == {"timeout", "HTTP400", "HTTP403", "HTTP404", "HTTP503"}

\* (mutant) status 400 left out of the statuses that are retried
RetryableWithout400(e) == e \in {"timeout", "HTTP403", "HTTP503"}

\* the errors download_videos_for_user swallows and retries
Retryable(e) == e \in {"timeout", "HTTP403", "HTTP400", "HTTP503"}

(***************************************************************************)
(* Video-info responses: whether the errorcode field is there, the itags   *)
(* of the stream map (<<>>: no url_encoded_fmt_stream_map field, else      *)
(* <<itags>>), and the itags behind the hlsvp and dashmpd URLs (<<>>: the  *)
(* field is absent).                                                       *)
(***************************************************************************)
Response(errorcode, stream_map, hlsvp, dashmpd) ==
    [errorcode |-> errorcode, stream_map |-> stream_map, hlsvp |-> hlsvp,
     dashmpd |-> dashmpd]

Responses == {
    Response(TRUE,  <<>>,           <<>>,       <<>>),
    Response(TRUE,  << <<22>> >>,   <<>>,       << <<137, 140>> >>),
    Response(FALSE, << <<22, 18>> >>, <<>>,     <<>>),
    Response(FALSE, << <<43>> >>,   << <<5>> >>, <<>>),
    Response(FALSE, << <<18>> >>,   <<>>,       << <<137, 140, 141>> >>),
    Response(FALSE, << <<22>> >>,   <<>>,       << <<140>> >>),
    Response(FALSE, << <<17>> >>,   <<>>,       << <<137, 171>> >>),
    Response(FALSE, << <<137, 18>> >>, <<>>,    <<>>),
    Response(FALSE, <<>>,           << <<18>> >>, << <<137, 140>> >>) }

(***************************************************************************)
(* Initial state: the program has just been started on an item none of    *)
(* whose files exists.                                                     *)
(***************************************************************************)
NotCalled == [kind |-> "not called", first |-> <<>>, second |-> <<>>]

Threads == {1, 2}

NoCallState ==
    /\ video_info = <<>>
    /\ temp = [n \in TempNames |-> "absent"]
    /\ que = <<>>
    /\ unfinished = 0
    /\ exception_queue = <<>>
    /\ wpc = [w \in Threads |-> "none"]
    /\ wtask = [w \in Threads |-> <<>>]
    /\ error = <<>>
    /\ requests = 0
    /\ remux_started = FALSE
    /\ reported = <<>>

Init ==
    /\ download_options = <<>>
    /\ highest = NoneFound
    /\ content = NotCalled
    /\ pc = "idle"
    /\ sidecar = NoSidecar
    /\ media = [ft \in FileTypes |-> "absent"]
    /\ calls = 0
    /\ at_call = NoFiles
    /\ NoCallState

files    == <<sidecar, media, temp>>
selvars  == <<download_options, highest, content>>
quevars  == <<que, unfinished, exception_queue, wpc, wtask, reported>>
vars == <<download_options, highest, content, pc, video_info, sidecar, media,
          temp, que, unfinished, exception_queue, wpc, wtask, error, calls,
          requests, remux_started, reported, at_call>>

(***************************************************************************)
(* download_feed_item, up to the choice of the content                     *)
(***************************************************************************)
\* what a call starts from: nothing of the previous call is left in memory
FreshCall ==
    /\ download_options' = <<>>
    /\ highest' = NoneFound
    /\ content' = NotCalled
    /\ video_info' = <<>>
    /\ temp' = [n \in TempNames |-> "absent"]
    /\ que' = <<>>
    /\ unfinished' = 0
    /\ exception_queue' = <<>>
    /\ wpc' = [w \in Threads |-> "none"]
    /\ wtask' = [w \in Threads |-> <<>>]
    /\ error' = <<>>
    /\ requests' = 0
    /\ remux_started' = FALSE
    /\ reported' = <<>>

\* the call finds the sidecar and returns None
CallAlreadyPresent ==
    /\ pc = "idle"
    /\ calls < MaxCalls
    /\ SidecarExists
    /\ calls' = calls + 1
    /\ at_call' = Directory
    /\ FreshCall
    /\ pc' = "returned None"
    /\ UNCHANGED <<sidecar, media>>

\* the call finds no sidecar and goes on to fetch the video info
CallStart ==
    /\ pc = "idle"
    /\ calls < MaxCalls
    /\ ~SidecarExists
    /\ calls' = calls + 1
    /\ at_call' = Directory
    /\ FreshCall
    /\ pc' = "download_info"
    /\ UNCHANGED <<sidecar, media>>

\* an exception leaves download_feed_item from outside its try block
RaiseFrom(p, e) ==
    /\ pc = p
    /\ pc' = "raised"
    /\ error' = <<e>>

\* browser_spoof_open(info_url) or the read of the response fails
InfoFails ==
    /\ \E e \in NetErrors : RaiseFrom("download_info", e)
    /\ requests' = requests + 1
    /\ UNCHANGED <<selvars, video_info, files, quevars, calls, remux_started, at_call>>

\* (mutant) the errorcode field is not looked at
ErrorcodeIgnored(r) == FALSE

\* "errorcode" in video_info
HasErrorcode(r) == r.errorcode

\* the response arrives; one with an errorcode field raises RuntimeError
InfoArrives ==
    /\ pc = "download_info"
    /\ requests' = requests + 1
    /\ \E r \in Responses :
        /\ video_info' = r
        /\ IF HasErrorcode(r)
           THEN pc' = "raised" /\ error' = <<"RuntimeError">>
           ELSE pc' = "stream_map" /\ error' = error
    /\ UNCHANGED <<selvars, files, quevars, calls, remux_started, at_call>>

\* download_options_from_stream_map: a response without the stream map
\* field raises KeyError as the function is called
StreamMap ==
    /\ pc = "stream_map"
    /\ IF video_info.stream_map = <<>>
       THEN /\ pc' = "raised" /\ error' = <<"KeyError">>
            /\ UNCHANGED download_options
       ELSE /\ download_options' = OptionsFrom("stream_map", video_info.stream_map[1])
            /\ pc' = "hlsvp" /\ error' = error
    /\ UNCHANGED <<highest, content, video_info, files, quevars, calls,
                   requests, remux_started, at_call>>

\* download_options_from_hlsvp without a playlist URL: nothing is fetched
HlsvpAbsent ==
    /\ pc = "hlsvp"
    /\ video_info.hlsvp = <<>>
    /\ pc' = "dashmpd"
    /\ UNCHANGED <<selvars, video_info, files, quevars, error, calls,
                   requests, remux_started, at_call>>

\* with a playlist URL: browser_spoof_open(m3u_url) is handed the list that
\* parse_qs made of the field, not its first element as the manifest
\* extractor does; urllib rejects it (URLError: unknown url type) before any
\* connection is opened, so neither the playlist nor its options arrive
HlsvpRaises ==
    /\ video_info # <<>>
    /\ video_info.hlsvp # <<>>
    /\ RaiseFrom("hlsvp", "URLError")
    /\ UNCHANGED <<selvars, video_info, files, quevars, calls, requests,
                   remux_started, at_call>>

\* download_options_from_dash_document without a manifest URL
DashAbsent ==
    /\ pc = "dashmpd"
    /\ video_info.dashmpd = <<>>
    /\ pc' = "select"
    /\ UNCHANGED <<selvars, video_info, files, quevars, error, calls,
                   requests, remux_started, at_call>>

DashFails ==
    /\ pc = "dashmpd"
    /\ video_info.dashmpd # <<>>
    /\ \E e \in NetErrors : RaiseFrom("dashmpd", e)
    /\ requests' = requests + 1
    /\ UNCHANGED <<selvars, video_info, files, quevars, calls, remux_started, at_call>>

DashArrives ==
    /\ pc = "dashmpd"
    /\ video_info.dashmpd # <<>>
    /\ requests' = requests + 1
    /\ download_options' = download_options \o OptionsFrom("dashmpd", video_info.dashmpd[1])
    /\ pc' = "select"
    /\ UNCHANGED <<highest, content, video_info, files, quevars, error, calls,
                   remux_started, at_call>>

\* content = highest_quality_content(...), then video_content.media_type:
\* a None content raises AttributeError there
Select ==
    /\ pc = "select"
    /\ highest' = Search(download_options, 1, NoneFound)
    /\ content' = highest_quality_content(download_options)
    /\ IF content'.kind \in {"single", "tuple"}
       THEN pc' = "remove" /\ error' = error
       ELSE pc' = "raised" /\ error' = <<"AttributeError">>
    /\ UNCHANGED <<download_options, video_info, files, quevars, calls,
                   requests, remux_started, at_call>>

\* video_filename's extension
video_file_type == content.first[1].media_type.file_type

\* os.remove(video_filename) if it exists
RemoveStale ==
    /\ pc = "remove"
    /\ media' = [media EXCEPT ![video_file_type] = "absent"]
    /\ pc' = IF content.kind = "tuple" THEN "mkstemp" ELSE "download_to_file"
    /\ UNCHANGED <<selvars, video_info, sidecar, temp, quevars, error, calls,
                   requests, remux_started, at_call>>

(***************************************************************************)
(* download_to_file(url, filename): open the URL, open the file for        *)
(* writing (which creates or empties it), copy.  The URL may fail to open  *)
(* and the copy may fail part-way.                                         *)
(***************************************************************************)
\* the single-file case: download_to_file(video_content.url, video_filename)
DownloadOpenFails ==
    /\ \E e \in NetErrors : RaiseFrom("download_to_file", e)
    /\ requests' = requests + 1
    /\ UNCHANGED <<selvars, video_info, files, quevars, calls, remux_started, at_call>>

DownloadOpens ==
    /\ pc = "download_to_file"
    /\ requests' = requests + 1
    /\ media' = [media EXCEPT ![video_file_type] = "partial"]
    /\ pc' = "copyfileobj"
    /\ UNCHANGED <<selvars, video_info, sidecar, temp, quevars, error, calls,
                   remux_started, at_call>>

DownloadCopyFails ==
    /\ \E e \in NetErrors : RaiseFrom("copyfileobj", e)
    /\ UNCHANGED <<selvars, video_info, files, quevars, calls, requests,
                   remux_started, at_call>>

DownloadCopies ==
    /\ pc = "copyfileobj"
    /\ media' = [media EXCEPT ![video_file_type] = "complete"]
    /\ pc' = "json open"
    /\ UNCHANGED <<selvars, video_info, sidecar, temp, quevars, error, calls,
                   requests, remux_started, at_call>>

(***************************************************************************)
(* The pair case: two temporary files, a queue of two tasks, two threads   *)
(***************************************************************************)
\* the two tempfile.mkstemp calls
Mkstemp ==
    /\ pc = "mkstemp"
    /\ temp' = [n \in TempNames |-> "partial"]
    /\ pc' = "que.put"
    /\ UNCHANGED <<selvars, video_info, sidecar, media, quevars, error, calls,
                   requests, remux_started, at_call>>

Task(url, filename) == [url |-> url, filename |-> filename]

\* the two que.put calls
PutTasks ==
    /\ pc = "que.put"
    /\ que' = << Task(content.first[1].url, "temp_video_filename"),
                 Task(content.second[1].url, "temp_audio_filename") >>
    /\ unfinished' = 2
    /\ pc' = "start 1"
    /\ UNCHANGED <<selvars, video_info, files, exception_queue, wpc, wtask,
                   reported, error, calls, requests, remux_started, at_call>>

\* for i in range(2): Thread(target= download_in_queue).start()
StartThread(w) ==
    /\ pc = (IF w = 1 THEN "start 1" ELSE "start 2")
    /\ wpc' = [wpc EXCEPT ![w] = "que.get"]
    /\ pc' = (IF w = 1 THEN "start 2" ELSE "que.join")
    /\ UNCHANGED <<selvars, video_info, files, que, unfinished, exception_queue,
                   wtask, reported, error, calls, requests, remux_started, at_call>>

\* (mutant) a get that leaves the task in the queue
NotDequeued(q) == q

\* what que.get() leaves in the queue: the task it returns is taken out
\* under the queue's lock
Dequeued(q) == Tail(q)

\* que.get()
ThreadGets(w) ==
    /\ wpc[w] = "que.get"
    /\ que # <<>>
    /\ wtask' = [wtask EXCEPT ![w] = <<Head(que)>>]
    /\ que' = Dequeued(que)
    /\ wpc' = [wpc EXCEPT ![w] = "download_to_file"]
    /\ UNCHANGED <<selvars, video_info, files, unfinished, exception_queue,
                   reported, error, calls, requests, remux_started, at_call, pc>>

\* (mutant) a thread that ends on a failed transfer without task_done
ThreadCatchesWithoutTaskDone(w, e) ==
    /\ exception_queue' = Append(exception_queue, e)
    /\ reported' = Append(reported, e)
    /\ wpc' = [wpc EXCEPT ![w] = "exited"]

\* except Exception as ex: exception_queue.put(ex)
ThreadCatches(w, e) ==
    /\ exception_queue' = Append(exception_queue, e)
    /\ reported' = Append(reported, e)
    /\ wpc' = [wpc EXCEPT ![w] = "finally"]

ThreadOpenFails(w) ==
    /\ wpc[w] = "download_to_file"
    /\ requests' = requests + 1
    /\ \E e \in NetErrors : ThreadCatches(w, e)
    /\ UNCHANGED <<selvars, video_info, files, que, unfinished, wtask, error,
                   calls, remux_started, at_call, pc>>

ThreadOpens(w) ==
    /\ wpc[w] = "download_to_file"
    /\ requests' = requests + 1
    /\ temp' = [temp EXCEPT ![wtask[w][1].filename] = "partial"]
    /\ wpc' = [wpc EXCEPT ![w] = "copyfileobj"]
    /\ UNCHANGED <<selvars, video_info, sidecar, media, que, unfinished,
                   exception_queue, wtask, reported, error, calls,
                   remux_started, at_call, pc>>

ThreadCopyFails(w) ==
    /\ wpc[w] = "copyfileobj"
    /\ \E e \in NetErrors : ThreadCatches(w, e)
    /\ UNCHANGED <<selvars, video_info, files, que, unfinished, wtask, error,
                   calls, requests, remux_started, at_call, pc>>

ThreadCopies(w) ==
    /\ wpc[w] = "copyfileobj"
    /\ temp' = [temp EXCEPT ![wtask[w][1].filename] = "complete"]
    /\ wpc' = [wpc EXCEPT ![w] = "finally"]
    /\ UNCHANGED <<selvars, video_info, sidecar, media, que, unfinished,
                   exception_queue, wtask, reported, error, calls, requests,
                   remux_started, at_call, pc>>

\* finally: que.task_done()
ThreadTaskDone(w) ==
    /\ wpc[w] = "finally"
    /\ unfinished' = unfinished - 1
    /\ wpc' = [wpc EXCEPT ![w] = "exited"]
    /\ UNCHANGED <<selvars, video_info, files, que, exception_queue, wtask,
                   reported, error, calls, requests, remux_started, at_call, pc>>

\* (mutant) waiting for the queue to be empty instead of for task_done
JoinReturnsWhenQueueEmpty == que = <<>>

\* que.join() returns when every task put has been marked done
JoinReturns == unfinished = 0

Join ==
    /\ pc = "que.join"
    /\ JoinReturns
    /\ pc' = "exception_queue.empty"
    /\ UNCHANGED <<selvars, video_info, files, quevars, error, calls, requests,
                   remux_started, at_call>>

\* (mutant) the exception queue is never looked at
ExceptionNeverPending == FALSE

\* if not exception_queue.empty(): raise exception_queue.get()
ExceptionPending == exception_queue # <<>>

RaiseReported ==
    /\ pc = "exception_queue.empty"
    /\ ExceptionPending
    /\ error' = <<Head(exception_queue)>>
    /\ exception_queue' = Tail(exception_queue)
    /\ pc' = "finally"
    /\ UNCHANGED <<selvars, video_info, files, que, unfinished, wpc, wtask,
                   reported, calls, requests, remux_started, at_call>>

\* subprocess.check_call(("ffmpeg", ...)) starts the tool
FfmpegStarts ==
    /\ pc = "exception_queue.empty"
    /\ ~ExceptionPending
    /\ remux_started' = TRUE
    /\ media' = [media EXCEPT ![video_file_type] = "partial"]
    /\ pc' = "ffmpeg"
    /\ UNCHANGED <<selvars, video_info, sidecar, temp, quevars, error, calls,
                   requests, at_call>>

FfmpegSucceeds ==
    /\ pc = "ffmpeg"
    /\ media' = [media EXCEPT ![video_file_type] = "complete"]
    /\ pc' = "finally"
    /\ UNCHANGED <<selvars, video_info, sidecar, temp, quevars, error, calls,
                   requests, remux_started, at_call>>

\* a non-zero exit status: CalledProcessError
FfmpegFails ==
    /\ pc = "ffmpeg"
    /\ error' = <<"CalledProcessError">>
    /\ pc' = "finally"
    /\ UNCHANGED <<selvars, video_info, files, quevars, calls, requests,
                   remux_started, at_call>>

\* (mutant) only the first of the two files is removed
RemovedVideoOnly(t) == [t EXCEPT !["temp_video_filename"] = "absent"]

\* finally: os.remove(temp_video_filename); os.remove(temp_audio_filename)
Removed(t) == [n \in TempNames |-> "absent"]

Cleanup ==
    /\ pc = "finally"
    /\ temp' = Removed(temp)
    /\ pc' = IF error = <<>> THEN "json open" ELSE "raised"
    /\ UNCHANGED <<selvars, video_info, sidecar, media, quevars, error, calls,
                   requests, remux_started, at_call>>

(***************************************************************************)
(* The sidecar: open(json_filename, "w") creates the file, json.dump       *)
(* writes it, and the call returns the two filenames.                      *)
(***************************************************************************)
JsonOpen ==
    /\ pc = "json open"
    /\ sidecar' = [state |-> "partial", file_type |-> video_file_type]
    /\ pc' = "json.dump"
    /\ UNCHANGED <<selvars, video_info, media, temp, quevars, error, calls,
                   requests, remux_started, at_call>>

JsonDump ==
    /\ pc = "json.dump"
    /\ sidecar' = [sidecar EXCEPT !.state = "complete"]
    /\ pc' = "returned filenames"
    /\ UNCHANGED <<selvars, video_info, media, temp, quevars, error, calls,
                   requests, remux_started, at_call>>

(***************************************************************************)
(* download_videos_for_user around the call, for the one item: a returned  *)
(* call ends the loop; a raised socket.timeout or HTTPError 400, 403 or    *)
(* 503 sleeps and calls again; any other exception ends the program.       *)
(***************************************************************************)
callvars == <<selvars, video_info, files, quevars, error, calls, requests,
              remux_started, at_call>>

Returned ==
    /\ pc \in {"returned None", "returned filenames"}
    /\ pc' = "finished"
    /\ UNCHANGED callvars

Retry ==
    /\ pc = "raised"
    /\ Retryable(error[1])
    /\ pc' = "sleep"
    /\ UNCHANGED callvars

Propagate ==
    /\ pc = "raised"
    /\ ~Retryable(error[1])
    /\ pc' = "terminated"
    /\ UNCHANGED callvars

Sleep ==
    /\ pc = "sleep"
    /\ pc' = "idle"
    /\ UNCHANGED callvars

(***************************************************************************)
(* The process may be killed or interrupted at any point of a call: what  *)
(* it held in memory is gone, its threads with it, and the files stay as   *)
(* they are.  (The temporary files of a killed call stay behind under      *)
(* names no later call uses; the model drops them.)  The program can then  *)
(* be run again, as it can after it finished or terminated.                *)
(***************************************************************************)
InCall == {"download_info", "stream_map", "hlsvp", "dashmpd", "select",
           "remove", "download_to_file", "copyfileobj", "mkstemp", "que.put",
           "start 1", "start 2", "que.join", "exception_queue.empty",
           "ffmpeg", "finally", "json open", "json.dump"}

Kill ==
    /\ pc \in InCall
    /\ pc' = "killed"
    /\ temp' = [n \in TempNames |-> "absent"]
    /\ que' = <<>>
    /\ unfinished' = 0
    /\ exception_queue' = <<>>
    /\ wpc' = [w \in Threads |-> "none"]
    /\ wtask' = [w \in Threads |-> <<>>]
    /\ error' = <<>>
    /\ UNCHANGED <<selvars, video_info, sidecar, media, reported, calls,
                   requests, remux_started, at_call>>

RunAgain ==
    /\ pc \in {"finished", "terminated", "killed"}
    /\ calls < MaxCalls
    /\ pc' = "idle"
    /\ UNCHANGED callvars

Next ==
    \/ CallAlreadyPresent \/ CallStart
    \/ InfoFails \/ InfoArrives \/ StreamMap
    \/ HlsvpAbsent \/ HlsvpRaises
    \/ DashAbsent \/ DashFails \/ DashArrives
    \/ Select \/ RemoveStale
    \/ DownloadOpenFails \/ DownloadOpens \/ DownloadCopyFails \/ DownloadCopies
    \/ Mkstemp \/ PutTasks
    \/ \E w \in Threads :
        \/ StartThread(w) \/ ThreadGets(w)
        \/ ThreadOpenFails(w) \/ ThreadOpens(w)
        \/ ThreadCopyFails(w) \/ ThreadCopies(w)
        \/ ThreadTaskDone(w)
    \/ Join \/ RaiseReported \/ FfmpegStarts \/ FfmpegSucceeds \/ FfmpegFails
    \/ Cleanup \/ JsonOpen \/ JsonDump
    \/ Returned \/ Retry \/ Propagate \/ Sleep
    \/ Kill \/ RunAgain

Spec == Init /\ [][Next]_vars

(***************************************************************************)
(* The pair case under a fair scheduler: a thread that can take a step     *)
(* eventually takes one (its transfer ends, by completing or by failing),  *)
(* and so does the main thread from the start of the threads to the end    *)
(* of the call (ffmpeg ends).  Killing the process stays possible at any   *)
(* point and is never forced.                                              *)
(***************************************************************************)
ThreadStep(w) ==
    \/ ThreadGets(w)
    \/ ThreadOpenFails(w) \/ ThreadOpens(w)
    \/ ThreadCopyFails(w) \/ ThreadCopies(w)
    \/ ThreadTaskDone(w)

MainStep ==
    \/ StartThread(1) \/ StartThread(2)
    \/ Join \/ RaiseReported \/ FfmpegStarts \/ FfmpegSucceeds \/ FfmpegFails
    \/ Cleanup \/ JsonOpen \/ JsonDump

LiveSpec ==
    /\ Init /\ [][Next]_vars
    /\ WF_vars(MainStep)
    /\ \A w \in Threads : WF_vars(ThreadStep(w))

(***************************************************************************)
(* The selector on its own: every option sequence of catalogue entries up  *)
(* to MaxLen, each option with the URL of its place in the sequence.       *)
(***************************************************************************)
ItagSeqs(n) == UNION {[1..k -> Itags] : k \in 0..n}

SelInit ==
    /\ download_options \in {OptionsFrom("sequence", s) : s \in ItagSeqs(MaxLen)}
    /\ highest = NoneFound
    /\ content = NotCalled
    /\ pc = "highest_quality_content"
    /\ sidecar = NoSidecar
    /\ media = [ft \in FileTypes |-> "absent"]
    /\ calls = 0
    /\ at_call = NoFiles
    /\ NoCallState

SelectCall ==
    /\ pc = "highest_quality_content"
    /\ highest' = Search(download_options, 1, NoneFound)
    /\ content' = highest_quality_content(download_options)
    /\ pc' = "selected"
    /\ UNCHANGED <<download_options, video_info, files, quevars, error, calls,
                   requests, remux_started, at_call>>

SelSpec == SelInit /\ [][SelectCall]_vars

(***************************************************************************)
(* The claims about the selector                                           *)
(***************************************************************************)
Opts      == {download_options[i] : i \in 1..Len(download_options)}
WithVideo == {o \in Opts : has_video(o.media_type)}
Combined  == {o \in WithVideo : has_audio(o.media_type)}
VideoOnly == {o \in WithVideo : ~has_audio(o.media_type)}
AudioOnly == {o \in Opts : ~has_video(o.media_type)}

\* the audio quality key as specified: (codecRank, audioBitrate)
SpecAudioKey(o) == << <<AUDIO_RATING_DICT[o.media_type.audio_format]>>,
                      o.media_type.audio_bitrate >>

VideoKeyMaximal(o, S) ==
    \A p \in S : ~TupleLess(video_quality_key(o), video_quality_key(p))

AudioKeyMaximal(o, S) == \A p \in S : ~TupleLess(SpecAudioKey(o), SpecAudioKey(p))

\* C1: when an option of highest video quality key is a combined option the
\* call returns that single combined option, audio-only options or not; a
\* pair is returned only when some video-only option's key is strictly
\* higher than every combined option's key.
C1_CombinedUnlessSplitVideoStrictlyBetter ==
    pc = "selected" =>
        /\ (\E c \in Combined : VideoKeyMaximal(c, WithVideo)) =>
               /\ content.kind = "single"
               /\ content.first[1] \in Combined
               /\ VideoKeyMaximal(content.first[1], WithVideo)
        /\ content.kind = "tuple" =>
               \E v \in VideoOnly : \A c \in Combined :
                   TupleLess(video_quality_key(c), video_quality_key(v))

\* C2: with an audio-only, a video-only and a combined option present and
\* the best video-only key strictly above every combined key, the call
\* returns the pair (best video-only, best audio-only) in every order of
\* the sequence.
C2_SplitWhenVideoOnlyStrictlyBetter ==
    ( /\ pc = "selected"
      /\ AudioOnly # {} /\ Combined # {}
      /\ \E v \in VideoOnly : \A c \in Combined :
             TupleLess(video_quality_key(c), video_quality_key(v)) ) =>
        /\ content.kind = "tuple"
        /\ content.first[1] \in VideoOnly
        /\ VideoKeyMaximal(content.first[1], VideoOnly)
        /\ content.second[1] \in AudioOnly
        /\ AudioKeyMaximal(content.second[1], AudioOnly)

\* C3: without audio-only options and with at least one combined option the
\* call returns a single combined option of the sequence, never a pair and
\* never None, video-only options present or not.
C3_CombinedWhenNoAudioOnly ==
    (pc = "selected" /\ AudioOnly = {} /\ Combined # {}) =>
        /\ content.kind = "single"
        /\ content.first[1] \in Combined

\* C4: a returned single option has both audio and video; a returned pair
\* is (video without audio, audio without video).
C4_SelectionWellShaped ==
    pc = "selected" =>
        /\ content.kind = "single" =>
               /\ has_video(content.first[1].media_type)
               /\ has_audio(content.first[1].media_type)
        /\ content.kind = "tuple" =>
               /\ has_video(content.first[1].media_type)
               /\ ~has_audio(content.first[1].media_type)
               /\ has_audio(content.second[1].media_type)
               /\ ~has_video(content.second[1].media_type)

\* C5: the audio-only option the loop ends with is an audio-only option of
\* maximal (codecRank, audioBitrate) among the audio-only options.
C5_BestAudioIsKeyMaximal ==
    (pc = "selected" /\ AudioOnly # {}) =>
        /\ highest.highest_audio # <<>>
        /\ highest.highest_audio[1] \in AudioOnly
        /\ AudioKeyMaximal(highest.highest_audio[1], AudioOnly)

\* the container order of the video key, lowest first
ContainerOrder == <<"3gp", "flv", "mp4", "webm">>

ContainerRank(o) ==
    CHOOSE i \in 1..Len(ContainerOrder) : ContainerOrder[i] = o.media_type.file_type

Area(o) == o.media_type.resolution[1] * o.media_type.resolution[2]

VideoBitrate(o) == o.media_type.video_bitrate[1]

\* (containerRank, width*height, videoBitrate), compared lexicographically
LexVideoLess(o, p) ==
    \/ ContainerRank(o) < ContainerRank(p)
    \/ ContainerRank(o) = ContainerRank(p) /\ Area(o) < Area(p)
    \/ /\ ContainerRank(o) = ContainerRank(p)
       /\ Area(o) = Area(p)
       /\ VideoBitrate(o) < VideoBitrate(p)

\* C15: the best video option the search ends with is an option with video
\* that no option with video exceeds in (containerRank, width*height,
\* videoBitrate) compared lexicographically, container first, then
\* resolution, then bitrate; it is the video of a returned pair.
C15_BestVideoIsLexicographicMaximum ==
    (pc = "selected" /\ WithVideo # {}) =>
        /\ highest.highest_video # <<>>
        /\ highest.highest_video[1] \in WithVideo
        /\ \A p \in WithVideo : ~LexVideoLess(highest.highest_video[1], p)
        /\ content.kind = "tuple" => content.first = highest.highest_video

\* a WebM 480x360 option is the best video, and the video of the returned
\* pair, although an MP4 1920x1080 option of four times its bitrate came
\* first
C15_Witness ==
    /\ pc = "selected"
    /\ Len(download_options) = 3
    /\ download_options[1].media_type.itag = 137
    /\ download_options[2].media_type.itag = 43
    /\ highest.highest_video = <<download_options[2]>>
    /\ content.kind = "tuple"
    /\ content.first = <<download_options[2]>>

\* the orders a sequence of options can come in
Reorderings(options) ==
    LET n == Len(options)
        Bijections == {f \in [1..n -> 1..n] : \A i, j \in 1..n : f[i] = f[j] => i = j}
    IN  {[i \in 1..n |-> options[f[i]]] : f \in Bijections}

\* no two options with video share a video quality key and no two options
\* with audio share an audio quality key
DistinctQualityKeys(options) ==
    \A i, j \in 1..Len(options) :
        i # j =>
            /\ (has_video(options[i].media_type) /\ has_video(options[j].media_type)) =>
                   (LexVideoLess(options[i], options[j]) \/ LexVideoLess(options[j], options[i]))
            /\ (has_audio(options[i].media_type) /\ has_audio(options[j].media_type)) =>
                   SpecAudioKey(options[i]) # SpecAudioKey(options[j])

\* a call's outcome: the single option or the pair it returns, or failure
\* (an exception, or None where an option was due)
Outcome(c) == IF c.kind \in {"single", "tuple"} THEN c ELSE Raised("fails")

\* C16: the outcome does not depend on the order of the options: for a
\* sequence whose quality keys are pairwise distinct, the call on any
\* reordering of it fails when this call fails and otherwise returns the
\* same single option or the same pair.
C16_OutcomeIndependentOfOrder ==
    (pc = "selected" /\ DistinctQualityKeys(download_options)) =>
        \A q \in Reorderings(download_options) :
            Outcome(highest_quality_content(q)) = Outcome(content)

(***************************************************************************)
(* The claims about download_feed_item                                     *)
(***************************************************************************)
AllThreadsExited == \A w \in Threads : wpc[w] = "exited"

\* C6: in the pair case ffmpeg is started only after both threads have
\* marked their task done, with both transfers finished, in every
\* interleaving of the two threads.
C6_RemuxAfterBothTransfers ==
    pc = "ffmpeg" =>
        /\ AllThreadsExited
        /\ unfinished = 0
        /\ \A n \in TempNames : temp[n] = "complete"

\* ffmpeg runs after the second thread took the video task and the first
\* the audio task
C6_Witness ==
    /\ pc = "ffmpeg"
    /\ content.kind = "tuple"
    /\ wtask[2] # <<>> /\ wtask[2][1].filename = "temp_video_filename"
    /\ wtask[1] # <<>> /\ wtask[1][1].filename = "temp_audio_filename"

\* C7: in the pair case, once a thread has reported a failed transfer, ffmpeg
\* is not invoked, no sidecar is written, the call does not return, the
\* exception it raises is the first one reported, and the main thread holds
\* that exception only when both threads have finished.
C7_TransferFailureFailsTheCall ==
    reported # <<>> =>
        /\ ~remux_started
        /\ ~SidecarExists
        /\ pc \notin {"ffmpeg", "json open", "json.dump", "returned filenames",
                      "returned None"}
        /\ error # <<>> => (error = <<reported[1]>> /\ AllThreadsExited)
        /\ pc \in {"raised", "sleep", "terminated"} => error = <<reported[1]>>

\* both transfers failed, with different exceptions, and the call has raised
C7_Witness ==
    /\ pc = "raised"
    /\ Len(reported) = 2
    /\ reported[1] # reported[2]
    /\ error = <<reported[1]>>

\* C8: when a call that chose a pair has returned or raised, neither of its
\* temporary files exists.
CallLeft == {"raised", "returned filenames", "sleep", "finished", "terminated"}

C8_TempFilesRemoved ==
    (content.kind = "tuple" /\ pc \in CallLeft) =>
        \A n \in TempNames : temp[n] = "absent"

\* the three ways out: a failed remux, a failed transfer, success
C8_Witness ==
    /\ content.kind = "tuple"
    /\ pc = "raised"
    /\ error = <<"CalledProcessError">>
    /\ remux_started

C8_WitnessTransferFailure ==
    content.kind = "tuple" /\ pc = "raised" /\ reported # <<>>

C8_WitnessSuccess ==
    content.kind = "tuple" /\ pc = "returned filenames"

\* C9: a call that finds the sidecar returns None having opened no network
\* connection, started no thread and no ffmpeg, and with every file as it
\* found it.
C9_AlreadyPresentDoesNothing ==
    (calls > 0 /\ at_call.sidecar # "absent") =>
        /\ pc \in {"returned None", "finished", "idle"}
        /\ requests = 0
        /\ ~remux_started
        /\ download_options = <<>>
        /\ video_info = <<>>
        /\ Directory = at_call
        /\ \A n \in TempNames : temp[n] = "absent"
        /\ \A w \in Threads : wpc[w] = "none"

\* the call after the one that wrote the sidecar has returned None
C9_Witness ==
    /\ calls >= 2
    /\ pc = "returned None"
    /\ at_call.sidecar = "complete"
    /\ requests = 0

\* C10 (the part that holds): whenever the sidecar exists, the media file
\* it was written for is complete, after kills and retries too; and a call
\* that raised left no sidecar.
SidecarImpliesCompleteMedia ==
    /\ SidecarExists => media[sidecar.file_type] = "complete"
    /\ pc \in {"raised", "sleep", "terminated"} => ~SidecarExists

\* C10: whenever the sidecar exists the media file is complete, and an
\* attempt that failed, by raising or by being killed at any step, leaves
\* no sidecar, so that the next call redoes the item.
C10_SidecarOnlyAfterMediaNoneAfterFailure ==
    /\ SidecarExists => media[sidecar.file_type] = "complete"
    /\ pc \in {"raised", "sleep", "terminated", "killed"} => ~SidecarExists

(***************************************************************************)
(* The claims about download_videos_for_user and download_info             *)
(***************************************************************************)
\* the errors the loop is to retry: a timeout, or an HTTP error with status
\* 400, 403 or 503
TransientError(e) == e \in {"timeout", "HTTP400", "HTTP403", "HTTP503"}

OrNothing(field) == IF field = <<>> THEN <<>> ELSE field[1]

AllOptions(r) ==
    OptionsFrom("stream_map", OrNothing(r.stream_map))
        \o OptionsFrom("hlsvp", OrNothing(r.hlsvp))
        \o OptionsFrom("dashmpd", OrNothing(r.dashmpd))

\* the playlist and manifest fetches a response asks for
Fetches(r) == (IF r.hlsvp = <<>> THEN 0 ELSE 1) + (IF r.dashmpd = <<>> THEN 0 ELSE 1)

\* download_info has ended, by returning or by raising
InfoEnded == pc = "select" \/ (pc = "raised" /\ content = NotCalled)

\* C12: on a response without the errorcode field all three extractors run
\* whichever of them succeed: the playlist and the manifest are fetched when
\* their URLs are there, and when no fetch failed the options are the
\* stream map's, the playlist's and the manifest's, in that order, a
\* response without a stream map yielding the other two.
C12_AllExtractorsRun ==
    (video_info # <<>> /\ ~video_info.errorcode /\ InfoEnded) =>
        /\ requests = 1 + Fetches(video_info)
        /\ error \in {<<>>, <<"KeyError">>} => download_options = AllOptions(video_info)

\* C13: when the response carries the errorcode field, the call raises with
\* nothing parsed or fetched beyond the info request, no option, no
\* selection, no thread, no ffmpeg and every file as the call found it.
C13_UpstreamErrorShortCircuits ==
    (video_info # <<>> /\ video_info.errorcode) =>
        /\ pc \in {"raised", "terminated", "idle"}
        /\ error = <<"RuntimeError">>
        /\ requests = 1
        /\ download_options = <<>>
        /\ content = NotCalled
        /\ highest = NoneFound
        /\ ~remux_started
        /\ reported = <<>>
        /\ \A w \in Threads : wpc[w] = "none"
        /\ \A n \in TempNames : temp[n] = "absent"
        /\ Directory = at_call
        /\ ~SidecarExists

\* an error response that also carries a stream map and a manifest URL
C13_Witness ==
    /\ pc = "raised"
    /\ video_info # <<>>
    /\ video_info.errorcode
    /\ video_info.stream_map # <<>>
    /\ video_info.dashmpd # <<>>

\* the two tasks of the pair case
VideoTask == Task(content.first[1].url, "temp_video_filename")
AudioTask == Task(content.second[1].url, "temp_audio_filename")

\* where the main thread is once both tasks are in the queue, up to the end
\* of the call and of the loop around it
AfterPut == {"start 1", "start 2", "que.join", "exception_queue.empty",
             "ffmpeg", "finally", "json open", "json.dump",
             "returned filenames", "finished", "raised", "sleep", "terminated"}

\* how often a task is in the queue, and which threads hold it
TimesQueued(t) == Cardinality({i \in 1..Len(que) : que[i] = t})
Holders(t) == {w \in Threads : wtask[w] = <<t>>}

\* the threads that have asked for their task's URL
Transferring == {w \in Threads : wpc[w] \in {"copyfileobj", "finally", "exited"}}

\* the requests download_info made before the selection
InfoRequests == 1 + (IF video_info.dashmpd = <<>> THEN 0 ELSE 1)

\* C14: in the pair case each of the two tasks is either still queued or held
\* by exactly one of the two threads, never both and never twice; a thread
\* holds at most one task and asks for its URL once; a temporary file is
\* written only by the thread holding its task; and when the wait is over
\* the queue is empty, both threads have run one task each and the call has
\* made exactly two transfer requests.
C14_EachTaskTakenByExactlyOneThread ==
    /\ (\E w \in Threads : wpc[w] # "none") => content.kind = "tuple"
    /\ (content.kind = "tuple" /\ pc \in AfterPut) =>
        /\ VideoTask # AudioTask
        /\ \A t \in {VideoTask, AudioTask} :
              TimesQueued(t) + Cardinality(Holders(t)) = 1
        /\ \A w \in Threads :
              /\ wtask[w] # <<>> => wtask[w][1] \in {VideoTask, AudioTask}
              /\ wtask[w] = <<>> <=> wpc[w] \in {"none", "que.get"}
        /\ requests = InfoRequests + Cardinality(Transferring)
        /\ \A t \in {VideoTask, AudioTask} :
              temp[t.filename] = "complete" =>
                  \E w \in Holders(t) : wpc[w] \in {"finally", "exited"}
        /\ pc \notin {"start 1", "start 2", "que.join"} =>
              /\ que = <<>>
              /\ AllThreadsExited
              /\ Cardinality(Holders(VideoTask)) = 1
              /\ Cardinality(Holders(AudioTask)) = 1
              /\ requests = InfoRequests + 2

\* the main thread waits while the second thread has finished the audio
\* task and the first is still copying the video
C14_Witness ==
    /\ pc = "que.join"
    /\ wtask[1] = <<VideoTask>> /\ wpc[1] = "copyfileobj"
    /\ wtask[2] = <<AudioTask>> /\ wpc[2] = "exited"
    /\ temp["temp_audio_filename"] = "complete"
    /\ video_info.dashmpd # <<>>

\* the pair section of the call, from the start of the threads to the
\* removal of the temporary files
PairSection == {"start 1", "start 2", "que.join", "exception_queue.empty",
                "ffmpeg", "finally"}

Exited == {w \in Threads : wpc[w] = "exited"}

\* C17: the pair case cannot deadlock.  Every thread that has ended has
\* marked one task done, after a transfer that succeeded or failed alike, and
\* no task is marked done otherwise; so under a fair scheduler the main
\* thread's wait for both tasks always ends, and the call always returns or
\* raises (unless the process is killed first).
C17_PairCaseTerminates ==
    /\ [](pc \in PairSection => unfinished = 2 - Cardinality(Exited))
    /\ (pc = "start 1") ~> (pc \in {"exception_queue.empty", "killed"})
    /\ (pc = "que.join") ~> (pc \in {"exception_queue.empty", "killed"})
    /\ (pc \in PairSection) ~> (pc \in {"raised", "returned filenames", "killed"})

\* the wait has returned although one thread failed while copying, after
\* the other had completed its transfer
C17_Witness ==
    /\ pc = "exception_queue.empty"
    /\ unfinished = 0
    /\ Len(reported) = 1
    /\ wtask[1] = <<AudioTask>> /\ temp["temp_audio_filename"] = "partial"
    /\ wtask[2] = <<VideoTask>> /\ temp["temp_video_filename"] = "complete"

====
